---- MODULE Spec2Model ----
(***************************************************************************)
(* Model of the npm package checker: the resolution pipeline of            *)
(* services/npmService.ts (fetchPackageDownloads, fetchPackageData) and    *)
(* the search handlers of the App component that consume it, with the      *)
(* CommandPalette component the App opens on Ctrl+K.                       *)
(*                                                                         *)
(* JavaScript values that the code tests with typeof, ! or || are tagged   *)
(* records: Undef, Null, Str(s), Num(n), objects [t |-> "object", ...].    *)
(* Text is a TLA+ string, read character by character with SubSeq.         *)
(***************************************************************************)
EXTENDS Integers, Sequences, FiniteSets, TLC

\* ------------------------------------------------------------------ bounds

\* Longest generated per-version author string.
MaxAuthorLen == 3

\* Number of searches the App may start in one behaviour.
MaxSearches == 2

\* The longest versions map whose every key order is sorted.
MaxVersionKeys == 4

\* The longest text typed into the palette's search box.
MaxTermLen == 4

\* The most entries of a dependencies map.
MaxDeps == 2

\* The most vis networks created in one run.
MaxNetworks == 3

\* ------------------------------------------------------- JavaScript values

Undef == [t |-> "undefined"]

Null == [t |-> "null"]

Str(s) == [t |-> "string", str |-> s]

Num(n) == [t |-> "number", num |-> n]

NaN == [t |-> "number", nan |-> TRUE]

\* ToBoolean: undefined, null, "" and 0 are falsy; objects and functions are truthy.
Truthy(x) ==
  CASE x.t = "undefined" -> FALSE
    [] x.t = "null" -> FALSE
    [] x.t = "string" -> x.str # ""
    [] x.t = "number" -> "num" \in DOMAIN x /\ x.num # 0
    [] OTHER -> TRUE

\* a || b
Or(a, b) == IF Truthy(a) THEN a ELSE b

\* Property read obj.field; a property the object does not have reads undefined.
Get(obj, field) == IF field \in DOMAIN obj THEN obj[field] ELSE Undef

\* obj?.field
OptGet(obj, field) == IF obj.t \in {"undefined", "null"} THEN Undef ELSE Get(obj, field)

\* --------------------------------------------------------------- text

CharAt(s, i) == SubSeq(s, i, i)

IsSpace(c) == c = " "

RECURSIVE TrimStart(_)
TrimStart(s) ==
  IF Len(s) > 0 /\ IsSpace(CharAt(s, 1)) THEN TrimStart(SubSeq(s, 2, Len(s))) ELSE s

RECURSIVE TrimEnd(_)
TrimEnd(s) ==
  IF Len(s) > 0 /\ IsSpace(CharAt(s, Len(s))) THEN TrimEnd(SubSeq(s, 1, Len(s) - 1)) ELSE s

\* String.prototype.trim
Trim(s) == TrimEnd(TrimStart(s))

\* Position of the first occurrence of character c in s at or after i, or
\* Len(s) + 1 when there is none.
RECURSIVE IndexOfChar(_, _, _)
IndexOfChar(s, c, i) ==
  IF i > Len(s) THEN Len(s) + 1
  ELSE IF CharAt(s, i) = c THEN i
  ELSE IndexOfChar(s, c, i + 1)

StartsWith(s, p) == Len(s) >= Len(p) /\ SubSeq(s, 1, Len(p)) = p

EndsWith(s, p) == Len(s) >= Len(p) /\ SubSeq(s, Len(s) - Len(p) + 1, Len(s)) = p

StartsWithAt(s, p, i) == i + Len(p) - 1 <= Len(s) /\ SubSeq(s, i, i + Len(p) - 1) = p

\* s.includes(sub)
Includes(s, sub) == \E i \in 1..(Len(s) + 1) : StartsWithAt(s, sub, i)

UpperCaseLetters == "ABCDEFGHIJKLMNOPQRSTUVWXYZ"

LowerCaseLetters == "abcdefghijklmnopqrstuvwxyz"

\* s.toLowerCase()
RECURSIVE ToLowerCase(_)
ToLowerCase(s) ==
  IF s = "" THEN ""
  ELSE LET at == IndexOfChar(UpperCaseLetters, CharAt(s, 1), 1)
       IN (IF at <= Len(UpperCaseLetters) THEN CharAt(LowerCaseLetters, at) ELSE CharAt(s, 1))
            \o ToLowerCase(SubSeq(s, 2, Len(s)))

\* ------------------------------------------------- registry documents

\* Members every parsed JSON object inherits from Object.prototype: reading
\* versions["constructor"] yields the Object function, not undefined.
ObjectPrototype ==
  [constructor |-> [t |-> "function", name |-> Str("Object")]]

\* data.versions[key]
VersionsLookup(data, key) ==
  IF key \in DOMAIN data.versions THEN data.versions[key]
  ELSE IF key \in DOMAIN ObjectPrototype THEN ObjectPrototype[key]
  ELSE Undef

\* ------------------------------------------ fetchPackageData: messages

NotFoundMessage(packageName) == "Package \"" \o packageName \o "\" not found."

TransportMessage(statusText) == "Failed to fetch package data: " \o statusText

NoLatestTagMessage(packageName) ==
  "Could not determine latest version for package \"" \o packageName \o "\"."

VersionNotFoundMessage(versionToFetch, packageName) ==
  "Could not find data for version \"" \o versionToFetch
    \o "\" of package \"" \o packageName \o "\"."

\* --------------------------------------- fetchPackageData: author chain

\* versionData.author.match(/^([^<]+)/): the longest prefix free of '<',
\* or no match (Null) when that prefix is empty.
NameMatch(s) ==
  LET end == IndexOfChar(s, "<", 1) - 1
  IN IF end >= 1 THEN Str(SubSeq(s, 1, end)) ELSE Null

\* Step 1 of the author extraction: the author taken from versionData.author.
AuthorFromField(authorField) ==
  IF Truthy(authorField)
  THEN IF authorField.t = "object" /\ Truthy(Get(authorField, "name"))
       THEN Get(authorField, "name")
       ELSE IF authorField.t = "string"
            THEN LET nameMatch == NameMatch(authorField.str)
                 IN IF nameMatch # Null THEN Str(Trim(nameMatch.str)) ELSE authorField
            ELSE Undef
  ELSE Undef

\* repoUrl.replace(/^git\+/, '').replace(/\.git$/, '')
CleanRepoUrl(repoUrl) ==
  LET a == IF StartsWith(repoUrl, "git+") THEN SubSeq(repoUrl, 5, Len(repoUrl)) ELSE repoUrl
  IN IF EndsWith(a, ".git") THEN SubSeq(a, 1, Len(a) - 4) ELSE a

\* cleanedRepoUrl.match(/github\.com\/([^/]+)\/[^/]+/) tried from position i
\* on: the first capture group of the leftmost match, or Null.
RECURSIVE GithubMatch(_, _)
GithubMatch(s, i) ==
  IF i > Len(s) THEN Null
  ELSE IF StartsWithAt(s, "github.com/", i)
       THEN LET from == i + 11
                slash == IndexOfChar(s, "/", from)
            IN IF slash > from /\ slash < Len(s) /\ CharAt(s, slash + 1) # "/"
               THEN Str(SubSeq(s, from, slash - 1))
               ELSE GithubMatch(s, i + 1)
       ELSE GithubMatch(s, i + 1)

\* Step 2 without its !author test: the repository owner overrides the field.
AuthorFromRepoAlways(author, repoUrl) ==
  IF Truthy(repoUrl)
  THEN LET githubMatch == GithubMatch(CleanRepoUrl(repoUrl.str), 1)
       IN IF githubMatch # Null /\ Truthy(githubMatch) THEN githubMatch ELSE author
  ELSE author

\* Step 2 of the author extraction: the owner inferred from the repository URL.
AuthorFromRepo(author, repoUrl) ==
  IF ~Truthy(author) /\ Truthy(repoUrl)
  THEN LET githubMatch == GithubMatch(CleanRepoUrl(repoUrl.str), 1)
       IN IF githubMatch # Null /\ Truthy(githubMatch) THEN githubMatch ELSE author
  ELSE author

\* The author without the || 'N/A' default.
ResolveAuthorNoDefault(versionData, repoUrl) ==
  AuthorFromRepo(AuthorFromField(Get(versionData, "author")), repoUrl)

\* The author of the returned packageData: author || 'N/A'.
ResolveAuthor(versionData, repoUrl) ==
  Or(AuthorFromRepo(AuthorFromField(Get(versionData, "author")), repoUrl), Str("N/A"))

\* ------------------------------------ fetchPackageData: version ordering

Digits == {"0", "1", "2", "3", "4", "5", "6", "7", "8", "9"}

DigitValue(c) ==
  CASE c = "0" -> 0 [] c = "1" -> 1 [] c = "2" -> 2 [] c = "3" -> 3 [] c = "4" -> 4
    [] c = "5" -> 5 [] c = "6" -> 6 [] c = "7" -> 7 [] c = "8" -> 8 [] c = "9" -> 9

RECURSIVE DecimalValue(_)
DecimalValue(s) ==
  IF s = "" THEN 0
  ELSE 10 * DecimalValue(SubSeq(s, 1, Len(s) - 1)) + DigitValue(CharAt(s, Len(s)))

\* Number(segment): surrounding whitespace is ignored, the empty text is 0, a
\* run of decimal digits is its value and any other text here is NaN.
ToNumber(segment) ==
  LET body == Trim(segment)
  IN IF body = "" THEN Num(0)
     ELSE IF \A i \in 1..Len(body) : CharAt(body, i) \in Digits THEN Num(DecimalValue(body))
     ELSE NaN

\* s.split('.')
RECURSIVE Split(_)
Split(s) ==
  LET dot == IndexOfChar(s, ".", 1)
  IN IF dot > Len(s) THEN <<s>>
     ELSE <<SubSeq(s, 1, dot - 1)>> \o Split(SubSeq(s, dot + 1, Len(s)))

\* a.split('.').map(Number)
Parts(version) == LET segs == Split(version) IN [i \in 1..Len(segs) |-> ToNumber(segs[i])]

\* aParts[i] || 0
PartAt(parts, i) == Or(IF i <= Len(parts) THEN parts[i] ELSE Undef, Num(0)).num

Max(a, b) == IF a >= b THEN a ELSE b

\* The sort callback: the first differing position decides, bNum - aNum.
RECURSIVE CompareFrom(_, _, _)
CompareFrom(aParts, bParts, i) ==
  IF i > Max(Len(aParts), Len(bParts)) THEN 0
  ELSE IF PartAt(aParts, i) # PartAt(bParts, i)
       THEN PartAt(bParts, i) - PartAt(aParts, i)
       ELSE CompareFrom(aParts, bParts, i + 1)

\* The callback with its operands exchanged: ascending order.
CompareVersionsAscending(a, b) == CompareFrom(Parts(b), Parts(a), 1)

CompareVersions(a, b) == CompareFrom(Parts(a), Parts(b), 1)

\* Array.prototype.sort is stable: x is placed before the first element that
\* must follow it, after every element it compares equal to.
RECURSIVE InsertSorted(_, _)
InsertSorted(sorted, x) ==
  IF sorted = <<>> THEN <<x>>
  ELSE IF CompareVersions(x, Head(sorted)) < 0 THEN <<x>> \o sorted
  ELSE <<Head(sorted)>> \o InsertSorted(Tail(sorted), x)

RECURSIVE SortVersions(_)
SortVersions(keys) ==
  IF keys = <<>> THEN <<>>
  ELSE InsertSorted(SortVersions(SubSeq(keys, 1, Len(keys) - 1)), keys[Len(keys)])

\* A sort that is not stable: keys that compare equal come out in the
\* reverse of their order in the map.
AllVersionsTiesReversed(data) ==
  SortVersions([i \in 1..Len(data.versionKeys) |-> data.versionKeys[Len(data.versionKeys) + 1 - i]])

\* Object.keys(data.versions).sort(...)
AllVersions(data) == SortVersions(data.versionKeys)

\* ------------------------------------------------ fetchPackageDownloads

DownloadsUrl(packageName) == "https://api.npmjs.org/downloads/point/last-week/" \o packageName

\* What the downloads endpoint may answer: the request fails at network
\* level, or an HTTP response arrives whose body parses or does not.
DownloadsResponses ==
  {[kind |-> "network"]}
    \cup {[kind |-> "http", ok |-> FALSE, status |-> st, body |-> Undef] : st \in {404, 500}}
    \cup {[kind |-> "http", ok |-> TRUE, status |-> 200, body |-> b] :
            b \in {[t |-> "unparsable"], [t |-> "object", downloads |-> Num(1234)]}}

\* TRUE when the try block of fetchPackageDownloads throws: fetch rejects, a
\* non-404 error status, or response.json() rejects.
DownloadsThrows(response) ==
  \/ response.kind = "network"
  \/ response.kind = "http" /\ ~response.ok /\ response.status # 404
  \/ response.kind = "http" /\ response.ok /\ response.body.t = "unparsable"

\* fetchPackageDownloads without its catch block: what throws inside rejects the promise.
FetchPackageDownloadsNoCatch(response) ==
  IF DownloadsThrows(response)
  THEN [settled |-> "rejected", reason |-> Str("Failed to fetch download data")]
  ELSE IF ~response.ok THEN [settled |-> "fulfilled", value |-> Undef]
  ELSE [settled |-> "fulfilled", value |-> Get(response.body, "downloads")]

\* How the promise of fetchPackageDownloads settles: the catch block turns
\* whatever the try block throws into undefined.
FetchPackageDownloads(response) ==
  IF DownloadsThrows(response) THEN [settled |-> "fulfilled", value |-> Undef]
  ELSE IF ~response.ok THEN [settled |-> "fulfilled", value |-> Undef]
  ELSE [settled |-> "fulfilled", value |-> Get(response.body, "downloads")]

\* ----------------------------------------------------- fetchPackageData

RegistryUrl(packageName) == "https://registry.npmjs.org/" \o packageName

NpmUrl(packageName) == "https://www.npmjs.com/package/" \o packageName

\* The document fetch with no case for status 404.
DocumentOutcomeStatusTextOnly(packageName, response) ==
  IF response.kind = "network" THEN [ok |-> FALSE, message |-> "Failed to fetch"]
  ELSE IF ~response.ok
       THEN [ok |-> FALSE, message |-> TransportMessage(response.statusText)]
       ELSE IF response.body.t = "unparsable"
            THEN [ok |-> FALSE, message |-> "Unexpected token < in JSON at position 0"]
            ELSE [ok |-> TRUE, data |-> response.body]

\* The outcome of the document fetch up to response.json(): the parsed
\* document, or the error thrown.
DocumentOutcome(packageName, response) ==
  IF response.kind = "network" THEN [ok |-> FALSE, message |-> "Failed to fetch"]
  ELSE IF ~response.ok
       THEN IF response.status = 404
            THEN [ok |-> FALSE, message |-> NotFoundMessage(packageName)]
            ELSE [ok |-> FALSE, message |-> TransportMessage(response.statusText)]
       ELSE IF response.body.t = "unparsable"
            THEN [ok |-> FALSE, message |-> "Unexpected token < in JSON at position 0"]
            ELSE [ok |-> TRUE, data |-> response.body]

\* The last key of the versions map taken for the latest version.
LatestVersionLastKey(data) ==
  IF data.versionKeys = <<>> THEN Undef ELSE Str(data.versionKeys[Len(data.versionKeys)])

\* data['dist-tags']?.latest
LatestVersion(data) == OptGet(Get(data, "distTags"), "latest")

\* version || latestVersion
VersionToFetch(version, latestVersion) == Or(version, latestVersion)

\* Selection of the target version record: the record, or the error thrown.
SelectVersion(data, packageName, version) ==
  LET latestVersion == LatestVersion(data)
  IN IF ~Truthy(latestVersion)
     THEN [ok |-> FALSE, message |-> NoLatestTagMessage(packageName)]
     ELSE LET versionToFetch == VersionToFetch(version, latestVersion).str
              versionData == VersionsLookup(data, versionToFetch)
          IN IF ~Truthy(versionData)
             THEN [ok |-> FALSE, message |-> VersionNotFoundMessage(versionToFetch, packageName)]
             ELSE [ok |-> TRUE, versionToFetch |-> versionToFetch, versionData |-> versionData]

\* The root-level repository URL preferred to the per-version one.
RepoUrlRootFirst(versionData, data) ==
  Or(OptGet(Get(data, "repository"), "url"), OptGet(Get(versionData, "repository"), "url"))

\* versionData.repository?.url || data.repository?.url
RepoUrl(versionData, data) ==
  Or(OptGet(Get(versionData, "repository"), "url"), OptGet(Get(data, "repository"), "url"))

\* The per-version homepage alone, without the root-level fallback.
HomepageUrlVersionOnly(versionData, data) == Get(versionData, "homepage")

\* versionData.homepage || data.homepage
HomepageUrl(versionData, data) == Or(Get(versionData, "homepage"), Get(data, "homepage"))

\* data.time[versionToFetch]: the value read, or the TypeError thrown when
\* the document has no time member.
TimeLookup(data, versionToFetch) ==
  LET time == Get(data, "time")
  IN IF time = Undef
     THEN [ok |-> FALSE,
           message |-> "Cannot read properties of undefined (reading '" \o versionToFetch \o "')"]
     ELSE [ok |-> TRUE,
           rawPublishedDate |-> IF versionToFetch \in DOMAIN time THEN time[versionToFetch]
                                ELSE IF versionToFetch \in DOMAIN ObjectPrototype
                                     THEN ObjectPrototype[versionToFetch]
                                     ELSE Undef]

\* The text is an ISO timestamp YYYY-MM-DDTHH:MM:SS.sssZ.
IsIsoTimestamp(s) ==
  /\ Len(s) = 24
  /\ \A i \in {1, 2, 3, 4, 6, 7, 9, 10, 12, 13, 15, 16, 18, 19, 21, 22, 23} : CharAt(s, i) \in Digits
  /\ CharAt(s, 5) = "-" /\ CharAt(s, 8) = "-" /\ CharAt(s, 11) = "T"
  /\ CharAt(s, 14) = ":" /\ CharAt(s, 17) = ":" /\ CharAt(s, 20) = "." /\ CharAt(s, 24) = "Z"

\* new Date(raw).toLocaleDateString('en-GB', { year: 'numeric', month:
\* '2-digit', day: '2-digit' }) where the local calendar day is the UTC one:
\* DD/MM/YYYY, and "Invalid Date" for what Date cannot parse.
ToLocaleDateString(raw) ==
  IF raw.t = "string" /\ IsIsoTimestamp(raw.str)
  THEN SubSeq(raw.str, 9, 10) \o "/" \o SubSeq(raw.str, 6, 7) \o "/" \o SubSeq(raw.str, 1, 4)
  ELSE "Invalid Date"

\* let publishedDate; if (rawPublishedDate) publishedDate = ...
PublishedDate(rawPublishedDate) ==
  IF Truthy(rawPublishedDate) THEN Str(ToLocaleDateString(rawPublishedDate)) ELSE Undef

\* The packageData object literal.
PackageData(packageName, data, versionData, publishedDate, downloadsLastWeek) ==
  LET repoUrl == RepoUrl(versionData, data)
  IN [name |-> Get(versionData, "name"),
      version |-> Get(versionData, "version"),
      author |-> ResolveAuthor(versionData, repoUrl),
      homepage |-> HomepageUrl(versionData, data),
      repository |-> repoUrl,
      npmUrl |-> NpmUrl(packageName),
      publishedDate |-> publishedDate,
      downloadsLastWeek |-> downloadsLastWeek]

\* Both fetches started together, as with Promise.all.
RequestsAtStartParallel(packageName) == <<RegistryUrl(packageName), DownloadsUrl(packageName)>>

\* The requests a call issues when it starts, and once the version record is found.
RequestsAtStart(packageName) == <<RegistryUrl(packageName)>>

RequestsAfterSelection(packageName) == <<DownloadsUrl(packageName)>>

\* The requests a call issues when the document fetch or the selection throws.
RequestsAfterFailure(packageName) == <<>>

\* The call after the document response: rejected when the fetch, the
\* selection or the timestamp lookup throws, otherwise waiting for the
\* downloads it has just requested.
CallAfterDocument(call, response) ==
  LET answered == [call EXCEPT !.documentResponse = response]
      doc == DocumentOutcome(call.packageName, response)
      sel == IF doc.ok THEN SelectVersion(doc.data, call.packageName, call.version) ELSE doc
      time == IF sel.ok THEN TimeLookup(doc.data, sel.versionToFetch) ELSE sel
  IN IF ~doc.ok
     THEN [answered EXCEPT !.pc = "rejected", !.error = Str(doc.message),
                           !.requests = @ \o RequestsAfterFailure(call.packageName)]
     ELSE IF ~sel.ok
     THEN [answered EXCEPT !.pc = "rejected", !.error = Str(sel.message), !.data = doc.data,
                           !.requests = @ \o RequestsAfterFailure(call.packageName)]
     ELSE IF ~time.ok
     THEN [answered EXCEPT !.pc = "rejected", !.error = Str(time.message), !.data = doc.data,
                           !.versionData = sel.versionData,
                           !.requests = @ \o RequestsAfterFailure(call.packageName)]
     ELSE [answered EXCEPT !.pc = "awaitDownloads", !.data = doc.data,
                           !.versionData = sel.versionData,
                           !.publishedDate = PublishedDate(time.rawPublishedDate),
                           !.requests = @ \o RequestsAfterSelection(call.packageName)]

\* The call after the downloads response: the awaited fetchPackageDownloads
\* settles; a rejection would be rethrown by the catch block, a value is
\* merged into the result { packageData, allVersions }.
CallAfterDownloads(call, response) ==
  LET downloads == FetchPackageDownloads(response)
  IN IF downloads.settled = "rejected"
     THEN [call EXCEPT !.pc = "rejected", !.downloadsResponse = response,
                       !.error = downloads.reason]
     ELSE [call EXCEPT !.pc = "resolved",
                       !.downloadsResponse = response,
                       !.result = [packageData |-> PackageData(call.packageName, call.data,
                                                               call.versionData,
                                                               call.publishedDate,
                                                               downloads.value),
                                   allVersions |-> AllVersions(call.data)]]

\* A call of fetchPackageData(packageName, version) that has issued its first request.
NewCall(packageName, version, awaiter) ==
  [packageName |-> packageName, version |-> version, awaiter |-> awaiter,
   pc |-> "awaitDocument", requests |-> RequestsAtStart(packageName),
   documentResponse |-> Null, data |-> Null, versionData |-> Undef,
   publishedDate |-> Undef, downloadsResponse |-> Null, result |-> Null, error |-> Null]

\* ----------------------------------------------------------------- inputs

PackageNames == {"react", "vue"}

VersionKeyLists == {<<>>, <<"1.0.0">>, <<"1.0.0", "2.0.0">>}

LatestTags == {Undef, Str("1.0.0"), Str("2.0.0")}

RequestedVersions == {Undef, Str("1.0.0"), Str("2.0.0"), Str("constructor")}

AuthorAlphabet == {"J", " ", "<"}

RECURSIVE StringsOfLen(_, _)
StringsOfLen(alphabet, n) ==
  IF n = 0 THEN {""} ELSE {s \o c : s \in StringsOfLen(alphabet, n - 1), c \in alphabet}

AuthorStrings ==
  UNION {StringsOfLen(AuthorAlphabet, n) : n \in 0..MaxAuthorLen}
    \cup {"Jane Doe <jane@example.com>"}

AuthorFields ==
  {Undef} \cup {Str(s) : s \in AuthorStrings}
    \cup {[t |-> "object", name |-> Str("Bob")], [t |-> "object", name |-> Str("")],
          [t |-> "object", email |-> Str("bob@example.com")]}

Repository(url) == [t |-> "object", type |-> Str("git"), url |-> Str(url)]

VersionRepositories ==
  {Undef, Repository("git+https://github.com/acme/widget.git"),
   Repository("https://gitlab.com/acme/widget.git"), Repository("https://github.com/acme")}

RootRepositories == {Undef, Repository("git://github.com/rootorg/widget.git")}

\* The time map of a document: created, modified and one ISO timestamp for
\* each of the given version keys.
TimeMap(stamped) ==
  [k \in {"created", "modified"} \cup stamped |->
     IF k = "1.0.0" THEN Str("2020-03-05T12:00:00.000Z") ELSE Str("2021-11-30T12:00:00.000Z")]

KeySet(keys) == {keys[i] : i \in 1..Len(keys)}

\* A registry document for packageName: every version record carries its own
\* key as version and the package's name, as the registry serves them.
FullDocument(packageName, latest, keys, author, repository, rootRepository, homepage, rootHomepage, time) ==
  [t |-> "object",
   name |-> Str(packageName),
   distTags |-> [t |-> "object", latest |-> latest],
   versionKeys |-> keys,
   versions |-> [k \in KeySet(keys) |->
                   [t |-> "object", name |-> Str(packageName), version |-> Str(k),
                    author |-> author, homepage |-> homepage, repository |-> repository]],
   time |-> time,
   homepage |-> rootHomepage,
   repository |-> rootRepository]

\* A document with no homepage and a timestamp for every version.
Document(packageName, latest, keys, author, repository, rootRepository) ==
  FullDocument(packageName, latest, keys, author, repository, rootRepository,
               Undef, Undef, TimeMap(KeySet(keys)))

Documents(packageName) ==
  {Document(packageName, latest, keys, author, repository, rootRepository) :
     latest \in LatestTags, keys \in VersionKeyLists, author \in AuthorFields,
     repository \in VersionRepositories, rootRepository \in RootRepositories}

\* Version keys for the ordering: the keys of the example, keys that compare
\* equal and a key with a segment that is no number. None is an integer
\* index, so Object.keys lists them in insertion order.
VersionKeyPool == {"1.2.0", "1.10.0", "2.0.0", "1.2.10", "1.0", "1.0.0", "1.0.0-rc"}

\* The lists of n distinct keys of the pool: the key orders of a versions map.
RECURSIVE KeyListsOfLen(_)
KeyListsOfLen(n) ==
  IF n = 0 THEN {<<>>}
  ELSE {Append(keys, k) : keys \in KeyListsOfLen(n - 1), k \in VersionKeyPool} \
         {Append(keys, keys[i]) : keys \in KeyListsOfLen(n - 1), i \in 1..(n - 1)}

\* Documents that differ in their versions map: the latest tag names the
\* first key.
SortDocuments(packageName) ==
  {FullDocument(packageName, IF keys = <<>> THEN Undef ELSE Str(keys[1]), keys,
                Str("Jane Doe <jane@example.com>"), Undef, Undef, Undef, Undef,
                TimeMap(KeySet(keys))) :
     keys \in UNION {KeyListsOfLen(n) : n \in 0..MaxVersionKeys}}

VersionHomepages == {Undef, Str("https://widget.example/v2")}

RootHomepages == {Undef, Str("https://widget.example")}

\* The time member of a document: missing, or a map with a timestamp for
\* no version, for every version but 1.0.0, or for every version.
TimeMaps(keys) ==
  {Undef, TimeMap({}), TimeMap(KeySet(keys) \ {"1.0.0"}), TimeMap(KeySet(keys))}

\* Documents that differ in repository, homepage and timestamps.
MetadataDocuments(packageName) ==
  {FullDocument(packageName, Str("2.0.0"), <<"1.0.0", "2.0.0">>, Undef, repository,
                rootRepository, homepage, rootHomepage, time) :
     repository \in VersionRepositories, rootRepository \in RootRepositories,
     homepage \in VersionHomepages, rootHomepage \in RootHomepages,
     time \in TimeMaps(<<"1.0.0", "2.0.0">>)}

\* The documents the normalization is run on.
NormalizeDocuments(packageName) == SortDocuments(packageName) \cup MetadataDocuments(packageName)

\* The versions requested from them.
NormalizeVersions == {Undef, Str("1.0.0")}

\* The documents the App is searched against: one per package name.
AppDocuments(packageName) ==
  {Document(packageName, Str("2.0.0"), <<"1.0.0", "2.0.0">>, Str("Jane Doe <jane@example.com>"),
            Undef, Undef)}

\* What the registry may answer to the document request.
DocumentResponses(documents) ==
  {[kind |-> "network"],
   [kind |-> "http", ok |-> FALSE, status |-> 404, statusText |-> "Not Found", body |-> Undef],
   [kind |-> "http", ok |-> FALSE, status |-> 500, statusText |-> "Internal Server Error",
    body |-> Undef],
   [kind |-> "http", ok |-> TRUE, status |-> 200, statusText |-> "OK", body |-> [t |-> "unparsable"]]}
    \cup {[kind |-> "http", ok |-> TRUE, status |-> 200, statusText |-> "OK", body |-> d] :
            d \in documents}

\* Names a dependencies map may list: the package's own among them.
DependencyNames == {"app", "chalk", "lodash"}

\* The entries of a map of n distinct names, in Object.entries order.
RECURSIVE EntriesOfLen(_, _)
EntriesOfLen(n, range) ==
  IF n = 0 THEN {<<>>}
  ELSE {Append(entries, [name |-> d, range |-> range]) :
          entries \in EntriesOfLen(n - 1, range), d \in DependencyNames} \
         {Append(entries, entries[i]) : entries \in EntriesOfLen(n - 1, range), i \in 1..(n - 1)}

\* A dependencies or devDependencies member: absent, or a map.
DependencyMaps(range) ==
  {Undef} \cup {[t |-> "object", entries |-> entries] :
                  entries \in UNION {EntriesOfLen(n, range) : n \in 0..MaxDeps}}

\* The packageData objects handed to DependencyGraph.
GraphPackages ==
  {[name |-> Str("app"), version |-> Str("1.0.0"), dependencies |-> deps,
    devDependencies |-> devDeps] :
     deps \in DependencyMaps("^1.0.0"), devDeps \in DependencyMaps("^2.0.0")}

\* What the user may have in the palette's search box.
TermAlphabet == {"e", "L", "p"}

SearchTerms == UNION {StringsOfLen(TermAlphabet, n) : n \in 0..MaxTermLen}

\* What the user may type into the input, and answer to the palette's prompt.
InputTexts == {"", "react "}

PromptAnswers == {"vue", " "}

\* The downloads answers the App is searched against.
AppDownloadsResponses == {r \in DownloadsResponses : r.kind = "http" /\ r.status \in {200, 404} /\ r.body.t # "unparsable"}

\* The registry answers the App is searched against: not found, or the document.
AppDocumentResponses(name) ==
  {r \in DocumentResponses(AppDocuments(name)) : r.kind = "http" /\ r.status \in {200, 404} /\ r.body.t # "unparsable"}

\* ------------------------------------------------------------------ state

VARIABLES
  calls,               \* the fetchPackageData calls made so far, in call order
  searches,            \* the handleSearch runs that reached the fetch, in start order
  packageName,         \* App state: the text of the input
  selectedVersion,     \* App state
  availableVersions,   \* App state
  packageData,         \* App state: the displayed package, or Null
  securityAdvisories,  \* App state
  loading,             \* App state
  error,               \* App state: the displayed message, or Null
  commandPaletteOpen,  \* App state: the palette's isOpen
  searchTerm,          \* CommandPalette state
  selectedIndex,       \* CommandPalette state
  effectPending,       \* CommandPalette has rendered and its keydown effect has yet to run
  effectIsOpen,        \* isOpen as the keydown effect saw it when it last ran
  visLoaded,           \* the vis script has defined the global vis
  graphPackage,        \* the packageData prop of the mounted DependencyGraph, or Null
  nodes,               \* DependencyGraph: the nodes DataSet of the last effect run
  edges,               \* DependencyGraph: the edges DataSet of the last effect run
  networks,            \* the vis.Network instances created so far, in creation order
  networkInstance,     \* DependencyGraph state: the instance set last, 0 for null
  cleanupInstance      \* the instance the pending effect cleanup will destroy, 0 for none

appVars ==
  <<packageName, selectedVersion, availableVersions, packageData, securityAdvisories,
    loading, error>>

paletteVars == <<commandPaletteOpen, searchTerm, selectedIndex, effectPending, effectIsOpen>>

graphVars ==
  <<visLoaded, graphPackage, nodes, edges, networks, networkInstance, cleanupInstance>>

vars == <<calls, searches, appVars, paletteVars, graphVars>>

\* useState initial values; no call has been made.
Init ==
  /\ calls = <<>>
  /\ searches = <<>>
  /\ packageName = ""
  /\ selectedVersion = Str("")
  /\ availableVersions = <<>>
  /\ packageData = Null
  /\ securityAdvisories = <<>>
  /\ loading = FALSE
  /\ error = Null
  /\ commandPaletteOpen = FALSE
  /\ searchTerm = ""
  /\ selectedIndex = 0
  /\ effectPending = FALSE
  /\ effectIsOpen = FALSE
  /\ visLoaded = FALSE
  /\ graphPackage = Null
  /\ nodes = [items |-> <<>>, threw |-> FALSE]
  /\ edges = [items |-> <<>>, threw |-> FALSE]
  /\ networks = <<>>
  /\ networkInstance = 0
  /\ cleanupInstance = 0

\* ------------------------------------------------- App: handleSearch

\* handleSearch after the awaited fetchPackageData of search s has settled as
\* call: the statements up to the next await, or the catch and finally blocks.
SearchContinues(s, call) ==
  IF call.pc = "resolved"
  THEN /\ packageData' = call.result.packageData
       /\ availableVersions' = call.result.allVersions
       /\ selectedVersion' = call.result.packageData.version
       /\ packageName' = IF ~Truthy(searches[s].pkgNameOverride)
                         THEN searches[s].currentPackageName ELSE packageName
       /\ searches' = [searches EXCEPT ![s].pc = "awaitAdvisories"]
       /\ UNCHANGED <<securityAdvisories, loading, error>>
  ELSE IF call.pc = "rejected"
  THEN /\ error' = Or(call.error, Str("An unexpected error occurred."))
       /\ availableVersions' = <<>>
       /\ selectedVersion' = Str("")
       /\ packageData' = Null
       /\ securityAdvisories' = <<>>
       /\ loading' = FALSE
       /\ searches' = [searches EXCEPT ![s].pc = "done"]
       /\ UNCHANGED packageName
  ELSE UNCHANGED <<searches, appVars>>

\* The settled call is handed to whoever awaits it.
Settle(call) ==
  IF call.awaiter = 0 THEN UNCHANGED <<searches, appVars>>
  ELSE SearchContinues(call.awaiter, call)

\* handleSearch with setLoading(true) moved ahead of the test of the name.
HandleSearchLoadingFirst(versionToFetch, pkgNameOverride, selected) ==
  LET currentPackageName == Or(pkgNameOverride, Str(Trim(packageName)))
  IN IF ~Truthy(currentPackageName)
     THEN /\ loading' = TRUE
          /\ error' = Str("Please enter a package name.")
          /\ packageData' = Null
          /\ securityAdvisories' = <<>>
          /\ availableVersions' = <<>>
          /\ selectedVersion' = Str("")
          /\ UNCHANGED <<packageName, calls, searches>>
     ELSE /\ Len(searches) < MaxSearches
          /\ loading' = TRUE
          /\ error' = Null
          /\ packageData' = Null
          /\ securityAdvisories' = <<>>
          /\ selectedVersion' = selected
          /\ calls' = Append(calls, NewCall(currentPackageName.str, versionToFetch, Len(searches) + 1))
          /\ searches' = Append(searches, [pkgNameOverride |-> pkgNameOverride,
                                           currentPackageName |-> currentPackageName.str,
                                           call |-> Len(calls) + 1,
                                           pc |-> "awaitFetch"])
          /\ UNCHANGED <<packageName, availableVersions>>

\* handleSearch(e, versionToFetch, pkgNameOverride) up to its first await;
\* selected is selectedVersion as the caller left it.
HandleSearch(versionToFetch, pkgNameOverride, selected) ==
  LET currentPackageName == Or(pkgNameOverride, Str(Trim(packageName)))
  IN IF ~Truthy(currentPackageName)
     THEN /\ error' = Str("Please enter a package name.")
          /\ packageData' = Null
          /\ securityAdvisories' = <<>>
          /\ availableVersions' = <<>>
          /\ selectedVersion' = Str("")
          /\ UNCHANGED <<packageName, loading, calls, searches>>
     ELSE /\ Len(searches) < MaxSearches
          /\ loading' = TRUE
          /\ error' = Null
          /\ packageData' = Null
          /\ securityAdvisories' = <<>>
          /\ selectedVersion' = selected
          /\ calls' = Append(calls, NewCall(currentPackageName.str, versionToFetch, Len(searches) + 1))
          /\ searches' = Append(searches, [pkgNameOverride |-> pkgNameOverride,
                                           currentPackageName |-> currentPackageName.str,
                                           call |-> Len(calls) + 1,
                                           pc |-> "awaitFetch"])
          /\ UNCHANGED <<packageName, availableVersions>>

\* The form is submitted; its button is disabled while loading or without a name.
SubmitForm ==
  /\ ~loading
  /\ Trim(packageName) # ""
  /\ HandleSearch(Undef, Undef, selectedVersion)

\* The select, disabled while loading or without versions, changes to newVersion.
HandleVersionChange(newVersion) ==
  /\ ~loading
  /\ availableVersions # <<>>
  /\ \E i \in 1..Len(availableVersions) : availableVersions[i] = newVersion
  /\ Str(newVersion) # selectedVersion
  /\ HandleSearch(Str(newVersion), Undef, Str(newVersion))

\* The palette's Search Package command; pkg is the prompt's answer.
SearchPackageCommand(pkg) ==
  /\ Truthy(Str(pkg))
  /\ HandleSearch(Undef, Str(Trim(pkg)), selectedVersion)

\* clearResults: the palette's Clear Results command.
ClearResults ==
  /\ packageName' = ""
  /\ selectedVersion' = Str("")
  /\ availableVersions' = <<>>
  /\ packageData' = Null
  /\ securityAdvisories' = <<>>
  /\ error' = Null
  /\ UNCHANGED <<loading, calls, searches>>

\* The input's onChange: clearing the text clears the results.
InputChange(text) ==
  /\ text # packageName
  /\ IF text = ""
     THEN ClearResults
     ELSE /\ packageName' = text
          /\ UNCHANGED <<selectedVersion, availableVersions, packageData, securityAdvisories,
                         error, loading, calls, searches>>

\* fetchSecurityAdvisories resolves with []; the try block ends and finally runs.
AdvisoriesDone(s) ==
  /\ searches[s].pc = "awaitAdvisories"
  /\ securityAdvisories' = <<>>
  /\ loading' = FALSE
  /\ searches' = [searches EXCEPT ![s].pc = "done"]
  /\ UNCHANGED <<calls, packageName, selectedVersion, availableVersions, packageData, error>>

\* ------------------------------------------------------ CommandPalette

\* The commands the App hands to the palette.
Commands ==
  <<[id |-> "search-package", name |-> "Search Package",
     keywords |-> <<"find", "lookup", "npm", "package">>],
    [id |-> "clear-results", name |-> "Clear Results", keywords |-> <<"reset", "empty">>],
    [id |-> "help", name |-> "Help", keywords |-> <<"info", "guide">>]>>

\* The filter of filteredCommands: the name or a keyword includes the term.
CommandMatches(command, term) ==
  \/ Includes(ToLowerCase(command.name), ToLowerCase(term))
  \/ \E k \in 1..Len(command.keywords) :
       Includes(ToLowerCase(command.keywords[k]), ToLowerCase(term))

\* filteredCommands: a new array on every render.
FilteredCommands(term) == SelectSeq(Commands, LAMBDA command : CommandMatches(command, term))

\* An event handler runs once the effects of the last render have run.
PaletteIdle == ~effectPending

\* handleGlobalKeyDown: Ctrl+K or Cmd+K opens the palette.
OpenPalette ==
  /\ PaletteIdle /\ ~commandPaletteOpen
  /\ commandPaletteOpen' = TRUE
  /\ effectPending' = TRUE
  /\ UNCHANGED <<searchTerm, selectedIndex, effectIsOpen, calls, searches, appVars>>

\* onClose: Escape, or a mouse press outside the palette.
ClosePalette ==
  /\ PaletteIdle /\ commandPaletteOpen
  /\ commandPaletteOpen' = FALSE
  /\ effectPending' = TRUE
  /\ UNCHANGED <<searchTerm, selectedIndex, effectIsOpen, calls, searches, appVars>>

\* The search box's onChange.
ChangeSearchTerm(text) ==
  /\ PaletteIdle /\ commandPaletteOpen
  /\ text # searchTerm
  /\ searchTerm' = text
  /\ effectPending' = TRUE
  /\ UNCHANGED <<commandPaletteOpen, selectedIndex, effectIsOpen, calls, searches, appVars>>

\* setSelectedIndex(index): a new value makes the palette render again.
SetSelectedIndex(index) ==
  /\ selectedIndex' = index
  /\ effectPending' = (index # selectedIndex)
  /\ UNCHANGED <<commandPaletteOpen, searchTerm, effectIsOpen, calls, searches, appVars>>

\* handleKeyDown, ArrowUp.
ArrowUp ==
  /\ PaletteIdle /\ commandPaletteOpen
  /\ SetSelectedIndex(IF selectedIndex > 0 THEN selectedIndex - 1
                      ELSE Len(FilteredCommands(searchTerm)) - 1)

\* handleKeyDown, ArrowDown.
ArrowDown ==
  /\ PaletteIdle /\ commandPaletteOpen
  /\ SetSelectedIndex(IF selectedIndex < Len(FilteredCommands(searchTerm)) - 1
                      THEN selectedIndex + 1 ELSE 0)

\* The hovered command counted from 1 where the list is indexed from 0.
MouseEnterOneBased(i) ==
  /\ PaletteIdle /\ commandPaletteOpen
  /\ i \in 1..Len(FilteredCommands(searchTerm))
  /\ SetSelectedIndex(i)

\* onMouseEnter of the i-th listed command.
MouseEnter(i) ==
  /\ PaletteIdle /\ commandPaletteOpen
  /\ i \in 1..Len(FilteredCommands(searchTerm))
  /\ SetSelectedIndex(i - 1)

\* command.action(): the prompt of Search Package is answered or cancelled.
RunCommand(command) ==
  IF command.id = "search-package"
  THEN \/ \E pkg \in PromptAnswers : SearchPackageCommand(pkg)
       \/ UNCHANGED <<calls, searches, appVars>>
  ELSE IF command.id = "clear-results"
  THEN ClearResults
  ELSE UNCHANGED <<calls, searches, appVars>>

\* command.action(); onClose()
RunAndClose(command) ==
  /\ RunCommand(command)
  /\ commandPaletteOpen' = FALSE
  /\ effectPending' = TRUE
  /\ UNCHANGED <<searchTerm, selectedIndex, effectIsOpen>>

\* handleKeyDown, Enter: the selected command, if there is one.
Enter ==
  /\ PaletteIdle /\ commandPaletteOpen
  /\ selectedIndex + 1 \in 1..Len(FilteredCommands(searchTerm))
  /\ RunAndClose(FilteredCommands(searchTerm)[selectedIndex + 1])

\* onClick of the i-th listed command.
ClickCommand(i) ==
  /\ PaletteIdle /\ commandPaletteOpen
  /\ i \in 1..Len(FilteredCommands(searchTerm))
  /\ RunAndClose(FilteredCommands(searchTerm)[i])

\* The effect that installs handleKeyDown, dependencies [isOpen,
\* handleKeyDown]: handleKeyDown depends on filteredCommands and so is new
\* after every render, and the effect runs after every render; open, it
\* clears the search term and the selection, which renders again when
\* either changes.
KeyDownEffect ==
  /\ effectPending
  /\ IF commandPaletteOpen
     THEN /\ searchTerm' = ""
          /\ selectedIndex' = 0
          /\ effectPending' = (searchTerm # "" \/ selectedIndex # 0)
     ELSE /\ effectPending' = FALSE
          /\ UNCHANGED <<searchTerm, selectedIndex>>
  /\ effectIsOpen' = commandPaletteOpen
  /\ UNCHANGED <<commandPaletteOpen, calls, searches, appVars>>

\* ------------------------------------------------------ DependencyGraph

\* new vis.DataSet()
EmptyDataSet == [items |-> <<>>, threw |-> FALSE]

\* nodes.get(id): the item with that id, or null.
DataSetGet(set, id) ==
  IF \E i \in 1..Len(set.items) : set.items[i].id = id
  THEN set.items[CHOOSE i \in 1..Len(set.items) : set.items[i].id = id]
  ELSE Null

\* nodes.add(item): vis throws when an item with that id exists.
DataSetAdd(set, item) ==
  IF DataSetGet(set, item.id) # Null THEN [set EXCEPT !.threw = TRUE]
  ELSE [set EXCEPT !.items = Append(@, item)]

\* edges.add(edge): the edge has no id of its own, vis gives it a fresh one.
EdgesAdd(set, edge) == [set EXCEPT !.items = Append(@, edge)]

\* A node added for every entry, without the test of nodes.get.
AddEntryNoTest(graph, entry, type, from) ==
  [nodes |-> DataSetAdd(graph.nodes,
                        [id |-> entry.name, label |-> entry.name \o "\n" \o entry.range,
                         group |-> type]),
   edges |-> EdgesAdd(graph.edges, [from |-> from, to |-> entry.name, arrows |-> "to",
                                    dashes |-> (type = "devDep")])]

\* The body of the forEach of addDependencies for one [depName, depVersion].
AddEntry(graph, entry, type, from) ==
  [nodes |-> IF DataSetGet(graph.nodes, entry.name) = Null
             THEN DataSetAdd(graph.nodes,
                             [id |-> entry.name, label |-> entry.name \o "\n" \o entry.range,
                              group |-> type])
             ELSE graph.nodes,
   edges |-> EdgesAdd(graph.edges, [from |-> from, to |-> entry.name, arrows |-> "to",
                                    dashes |-> (type = "devDep")])]

\* Object.entries(deps).forEach(...) from entry i on; a throw ends it.
RECURSIVE AddEntriesFrom(_, _, _, _, _)
AddEntriesFrom(graph, entries, type, from, i) ==
  IF i > Len(entries) \/ graph.nodes.threw THEN graph
  ELSE AddEntriesFrom(AddEntry(graph, entries[i], type, from), entries, type, from, i + 1)

\* addDependencies(deps, type)
AddDependencies(graph, deps, type, from) ==
  IF Truthy(deps) /\ ~graph.nodes.threw THEN AddEntriesFrom(graph, deps.entries, type, from, 1)
  ELSE graph

\* The nodes and edges the effect builds for packageData.
BuildGraph(data) ==
  LET main == [id |-> data.name.str,
               label |-> data.name.str \o "\nv" \o data.version.str, group |-> "main"]
      start == [nodes |-> DataSetAdd(EmptyDataSet, main), edges |-> EmptyDataSet]
      deps == AddDependencies(start, data.dependencies, "dep", data.name.str)
  IN AddDependencies(deps, data.devDependencies, "devDep", data.name.str)

\* The cleanup the last effect run returned, if it returned one:
\* newNetworkInstance.destroy().
RunCleanup(instances) ==
  IF cleanupInstance = 0 THEN instances
  ELSE [instances EXCEPT ![cleanupInstance].live = FALSE]

\* The effect of DependencyGraph for the prop data, after the cleanup of the
\* run before it: nothing without vis, else the graph is built, a network
\* created on it, kept in the state and handed to the cleanup.
GraphEffect(data) ==
  LET cleaned == RunCleanup(networks)
      graph == BuildGraph(data)
  IN IF ~visLoaded
     THEN /\ networks' = cleaned
          /\ cleanupInstance' = 0
          /\ UNCHANGED <<nodes, edges, networkInstance>>
     ELSE IF graph.nodes.threw
     THEN /\ networks' = cleaned
          /\ cleanupInstance' = 0
          /\ nodes' = graph.nodes
          /\ edges' = graph.edges
          /\ UNCHANGED networkInstance
     ELSE /\ networks' = Append(cleaned, [live |-> TRUE])
          /\ cleanupInstance' = Len(networks) + 1
          /\ networkInstance' = Len(networks) + 1
          /\ nodes' = graph.nodes
          /\ edges' = graph.edges

\* The vis script finishes loading.
VisLoaded ==
  /\ ~visLoaded
  /\ visLoaded' = TRUE
  /\ UNCHANGED <<graphPackage, nodes, edges, networks, networkInstance, cleanupInstance>>

\* PackageCard renders DependencyGraph with a new packageData object: it
\* mounts, or its prop changes; the effect runs.
ShowPackage(data) ==
  /\ Len(networks) < MaxNetworks
  /\ graphPackage' = data
  /\ GraphEffect(data)
  /\ UNCHANGED visLoaded

\* packageData becomes null: PackageCard and DependencyGraph unmount, the
\* cleanup runs and the component's state is gone.
HidePackage ==
  /\ graphPackage # Null
  /\ graphPackage' = Null
  /\ networks' = RunCleanup(networks)
  /\ cleanupInstance' = 0
  /\ networkInstance' = 0
  /\ UNCHANGED <<visLoaded, nodes, edges>>

\* ------------------------------------------- fetchPackageData: the steps

\* fetchPackageData(name, version) called on its own, with no call before it.
FetchPackageData(name, version) ==
  /\ calls = <<>>
  /\ calls' = <<NewCall(name, version, 0)>>
  /\ UNCHANGED <<searches, appVars>>

\* The registry answers call c.
DocumentResponse(c, response) ==
  /\ calls[c].pc = "awaitDocument"
  /\ calls' = [calls EXCEPT ![c] = CallAfterDocument(@, response)]
  /\ Settle(calls'[c])

\* The downloads endpoint answers call c.
DownloadsResponse(c, response) ==
  /\ calls[c].pc = "awaitDownloads"
  /\ calls' = [calls EXCEPT ![c] = CallAfterDownloads(@, response)]
  /\ Settle(calls'[c])

\* ------------------------------------------------------- specifications

\* One call of fetchPackageData over every document and answer.
FetchNext ==
  \/ /\ \E name \in PackageNames, version \in RequestedVersions : FetchPackageData(name, version)
     /\ UNCHANGED <<paletteVars, graphVars>>
  \/ \E c \in 1..Len(calls) :
       /\ calls[c].pc = "awaitDocument"
       /\ \E response \in DocumentResponses(Documents(calls[c].packageName)) :
            DocumentResponse(c, response)
       /\ UNCHANGED <<paletteVars, graphVars>>
  \/ /\ \E c \in 1..Len(calls), response \in DownloadsResponses : DownloadsResponse(c, response)
     /\ UNCHANGED <<paletteVars, graphVars>>

FetchSpec == Init /\ [][FetchNext]_vars

\* One call of fetchPackageData over the documents that exercise the
\* normalization: version ordering, repository, homepage, publish date.
NormalizeNext ==
  \/ /\ \E name \in PackageNames, version \in NormalizeVersions : FetchPackageData(name, version)
     /\ UNCHANGED <<paletteVars, graphVars>>
  \/ \E c \in 1..Len(calls) :
       /\ calls[c].pc = "awaitDocument"
       /\ \E response \in DocumentResponses(NormalizeDocuments(calls[c].packageName)) :
            DocumentResponse(c, response)
       /\ UNCHANGED <<paletteVars, graphVars>>
  \/ /\ \E c \in 1..Len(calls), response \in DownloadsResponses : DownloadsResponse(c, response)
     /\ UNCHANGED <<paletteVars, graphVars>>

NormalizeSpec == Init /\ [][NormalizeNext]_vars

\* The App under any interleaving of user events and answers, the palette's
\* commands run without the palette being shown.
Next ==
  \/ /\ \E text \in InputTexts : InputChange(text)
     /\ UNCHANGED <<paletteVars, graphVars>>
  \/ SubmitForm /\ UNCHANGED <<paletteVars, graphVars>>
  \/ /\ \E v \in {"1.0.0", "2.0.0"} : HandleVersionChange(v)
     /\ UNCHANGED <<paletteVars, graphVars>>
  \/ /\ \E pkg \in PromptAnswers : SearchPackageCommand(pkg)
     /\ UNCHANGED <<paletteVars, graphVars>>
  \/ ClearResults /\ UNCHANGED <<paletteVars, graphVars>>
  \/ \E c \in 1..Len(calls) :
       /\ calls[c].pc = "awaitDocument"
       /\ \E response \in AppDocumentResponses(calls[c].packageName) :
            DocumentResponse(c, response)
       /\ UNCHANGED <<paletteVars, graphVars>>
  \/ /\ \E c \in 1..Len(calls), response \in AppDownloadsResponses : DownloadsResponse(c, response)
     /\ UNCHANGED <<paletteVars, graphVars>>
  \/ /\ \E s \in 1..Len(searches) : AdvisoriesDone(s)
     /\ UNCHANGED <<paletteVars, graphVars>>

Spec == Init /\ [][Next]_vars

\* The palette under the user's keys and mouse; the searches its commands
\* start stay unanswered.
PaletteNext ==
  \/ OpenPalette /\ UNCHANGED graphVars
  \/ ClosePalette /\ UNCHANGED graphVars
  \/ /\ \E text \in SearchTerms : ChangeSearchTerm(text)
     /\ UNCHANGED graphVars
  \/ ArrowUp /\ UNCHANGED graphVars
  \/ ArrowDown /\ UNCHANGED graphVars
  \/ /\ \E i \in 1..Len(Commands) : MouseEnter(i)
     /\ UNCHANGED graphVars
  \/ Enter /\ UNCHANGED graphVars
  \/ /\ \E i \in 1..Len(Commands) : ClickCommand(i)
     /\ UNCHANGED graphVars
  \/ KeyDownEffect /\ UNCHANGED graphVars

PaletteSpec == Init /\ [][PaletteNext]_vars

\* DependencyGraph under any sequence of packages shown and hidden.
GraphNext ==
  \/ VisLoaded /\ UNCHANGED <<calls, searches, appVars, paletteVars>>
  \/ /\ \E data \in GraphPackages : ShowPackage(data)
     /\ UNCHANGED <<calls, searches, appVars, paletteVars>>
  \/ HidePackage /\ UNCHANGED <<calls, searches, appVars, paletteVars>>

GraphSpec == Init /\ [][GraphNext]_vars

\* ------------------------------------------------- properties: helpers

Calls == 1..Len(calls)

\* The document fetch of call c succeeded: the parsed document is at hand.
HasDocument(c) == calls[c].data # Null

\* The keys of the versions map of the document call c received.
VersionKeysOf(c) == DOMAIN calls[c].data.versions

\* The latest tag as the document of call c carries it.
DistTagLatest(c) == calls[c].data.distTags.latest

\* s with everything from the first '<' onward removed, trimmed.
DisplayName(s) == Trim(SubSeq(s, 1, IndexOfChar(s, "<", 1) - 1))

\* The per-version author field of the record call c selected.
AuthorField(c) == Get(calls[c].versionData, "author")

\* The per-version author field names an author: the field alone settles
\* the author of the result.
NamesAuthor(field) ==
  \/ field.t = "string" /\ DisplayName(field.str) # ""
  \/ field.t = "string" /\ field.str # "" /\ StartsWith(field.str, "<")
  \/ field.t = "object" /\ Truthy(Get(field, "name"))

\* The repository URL the author inference reads for call c: the per-version
\* one, else the root-level one.
InferenceUrl(c) ==
  LET perVersion == OptGet(Get(calls[c].versionData, "repository"), "url")
  IN IF perVersion # Undef THEN perVersion ELSE OptGet(Get(calls[c].data, "repository"), "url")

\* The positions j of the '/' that ends an owner segment starting right after
\* "github.com/" at position i of s, a repo segment following it.
GithubOwnerEnds(s, i) ==
  {j \in (i + 12)..(Len(s) - 1) :
     /\ CharAt(s, j) = "/" /\ CharAt(s, j + 1) # "/"
     /\ \A k \in (i + 11)..(j - 1) : CharAt(s, k) # "/"}

\* The <owner> of the leftmost github.com/<owner>/<repo> in s, or Undef.
GithubOwner(s) ==
  LET starts == {i \in 1..Len(s) : StartsWithAt(s, "github.com/", i) /\ GithubOwnerEnds(s, i) # {}}
  IN IF starts = {} THEN Undef
     ELSE LET i == CHOOSE x \in starts : \A y \in starts : x <= y
              j == CHOOSE x \in GithubOwnerEnds(s, i) : TRUE
          IN Str(SubSeq(s, i + 11, j - 1))

\* The owner the repository URL of call c carries once cleaned, or Undef.
OwnerOf(c) ==
  IF InferenceUrl(c) = Undef THEN Undef ELSE GithubOwner(CleanRepoUrl(InferenceUrl(c).str))

\* Every fetch the App started has settled.
AllSettled == \A c \in Calls : calls[c].pc \in {"resolved", "rejected"}

\* --------------------------------------------- properties: fetchPackageData

\* C1: for every version key v of the received document, fetchPackageData(name, v)
\* does not fail, and when resolved its packageData.version is v.
C1_RequestedKeyResolves ==
  \A c \in Calls :
    (HasDocument(c) /\ calls[c].version.t = "string" /\ calls[c].version.str \in VersionKeysOf(c))
      => /\ calls[c].pc # "rejected"
         /\ calls[c].pc = "resolved" => calls[c].result.packageData.version = calls[c].version

C3_MissingVersionFails ==
  \A c \in Calls :
    (HasDocument(c) /\ calls[c].version.t = "string" /\ calls[c].version.str \notin VersionKeysOf(c))
      => /\ calls[c].pc = "rejected"
         /\ calls[c].error = Str(VersionNotFoundMessage(calls[c].version.str, calls[c].packageName))
         /\ calls[c].result = Null

\* C4: with a requested version the call never fails with NoLatestTag.
C4_NoLatestTagOnlyWhenNeeded ==
  \A c \in Calls :
    (HasDocument(c) /\ calls[c].version.t = "string")
      => ~(calls[c].pc = "rejected" /\ calls[c].error = Str(NoLatestTagMessage(calls[c].packageName)))

\* C5: whatever the downloads endpoint answers, the call resolves; a 404, any
\* other error status, a network failure or an unparsable body leave
\* downloadsLastWeek undefined, a parsed body gives its downloads.
C5_DownloadsNeverFail ==
  \A c \in Calls :
    calls[c].downloadsResponse # Null
      => LET r == calls[c].downloadsResponse
             parsed == r.kind = "http" /\ r.ok /\ r.body.t = "object"
         IN /\ calls[c].pc = "resolved"
            /\ calls[c].error = Null
            /\ ~parsed => calls[c].result.packageData.downloadsLastWeek = Undef
            /\ parsed => calls[c].result.packageData.downloadsLastWeek = r.body.downloads

\* A call resolved although its downloads request got an error status other than 404.
C5_Witness ==
  \E c \in Calls :
    /\ calls[c].pc = "resolved"
    /\ calls[c].downloadsResponse # Null
    /\ calls[c].downloadsResponse.kind = "http" /\ calls[c].downloadsResponse.status = 500
    /\ calls[c].result.packageData.downloadsLastWeek = Undef

\* C6: the downloads request is the second request of a call, issued once the
\* document is at hand and the version record found; a failed call without
\* downloads answer has issued the document request alone.
C6_DownloadsAfterSelection ==
  \A c \in Calls :
    LET requested == \E i \in 1..Len(calls[c].requests) :
                       calls[c].requests[i] = DownloadsUrl(calls[c].packageName)
    IN /\ requested => /\ HasDocument(c)
                       /\ Truthy(calls[c].versionData)
                       /\ calls[c].requests =
                            <<RegistryUrl(calls[c].packageName), DownloadsUrl(calls[c].packageName)>>
       /\ calls[c].pc = "rejected" => ~requested

\* A call failed at the version selection and a call got as far as the downloads.
C6_Witness ==
  \E c \in Calls :
    /\ calls[c].pc = "rejected" /\ HasDocument(c)
    /\ calls[c].error = Str(VersionNotFoundMessage("2.0.0", calls[c].packageName))
    /\ calls[c].requests = <<RegistryUrl(calls[c].packageName)>>

\* C14: a 404 on the document fetch rejects the call with the message that
\* names the package; a network failure or any other error status rejects it
\* with the transport's message; either way the call has no result and has
\* made no further request.
C14_DocumentFetchFailures ==
  \A c \in Calls :
    calls[c].documentResponse # Null
      => LET r == calls[c].documentResponse
             notFound == r.kind = "http" /\ r.status = 404
             transport == r.kind = "network" \/ (r.kind = "http" /\ ~r.ok /\ r.status # 404)
             failed == /\ calls[c].pc = "rejected"
                       /\ calls[c].result = Null
                       /\ calls[c].requests = <<RegistryUrl(calls[c].packageName)>>
         IN /\ notFound
                 => failed /\ calls[c].error =
                                Str("Package \"" \o calls[c].packageName \o "\" not found.")
            /\ transport
                 => /\ failed
                    /\ r.kind = "network" => calls[c].error = Str("Failed to fetch")
                    /\ r.kind = "http"
                         => calls[c].error = Str("Failed to fetch package data: " \o r.statusText)

\* One call failed on a 404 for react.
C14_Witness ==
  \E c \in Calls :
    /\ calls[c].documentResponse # Null
    /\ calls[c].documentResponse.kind = "http" /\ calls[c].documentResponse.status = 404
    /\ calls[c].pc = "rejected"
    /\ calls[c].error = Str("Package \"react\" not found.")

\* ---------------------------------------------------- properties: author

\* C9: the author of every resolved packageData is a non-empty string, and it
\* is 'N/A' when the record has no author name and the repository URL, if any,
\* has no github.com/<owner>/<repo> part.
C9_AuthorNeverEmpty ==
  \A c \in Calls :
    calls[c].pc = "resolved"
      => LET author == calls[c].result.packageData.author
             field == AuthorField(c)
             named == \/ field.t = "string" /\ DisplayName(field.str) # ""
                      \/ field.t = "string" /\ field.str # "" /\ StartsWith(field.str, "<")
                      \/ field.t = "object" /\ Truthy(Get(field, "name"))
         IN /\ author.t = "string" /\ author.str # ""
            /\ (~named /\ calls[c].result.packageData.repository \in
                             {Undef, Str("https://gitlab.com/acme/widget.git"),
                              Str("https://github.com/acme")})
                 => author = Str("N/A")

\* A blank display name and no repository: the sentinel is returned.
C9_Witness ==
  \E c \in Calls :
    /\ calls[c].pc = "resolved"
    /\ AuthorField(c) = Str(" <")
    /\ calls[c].result.packageData.repository = Undef
    /\ calls[c].result.packageData.author = Str("N/A")

\* C10 as stated: a string author always resolves to its display name.
C10_StringAuthorIsDisplayName ==
  \A c \in Calls :
    (calls[c].pc = "resolved" /\ AuthorField(c).t = "string")
      => calls[c].result.packageData.author = Str(DisplayName(AuthorField(c).str))

\* C10 amended: a string author whose part before the first '<' is not blank
\* resolves to that part, trimmed, whatever the repository URL.
C10_NonBlankDisplayName ==
  \A c \in Calls :
    (/\ calls[c].pc = "resolved" /\ AuthorField(c).t = "string"
     /\ DisplayName(AuthorField(c).str) # "")
      => calls[c].result.packageData.author = Str(DisplayName(AuthorField(c).str))

\* "Jane Doe <jane@example.com>" resolves to "Jane Doe" next to a GitHub repository.
C10_Witness ==
  \E c \in Calls :
    /\ calls[c].pc = "resolved"
    /\ AuthorField(c) = Str("Jane Doe <jane@example.com>")
    /\ calls[c].result.packageData.repository = Str("git+https://github.com/acme/widget.git")
    /\ calls[c].result.packageData.author = Str("Jane Doe")

SegmentsOf ==
  [v \in VersionKeyPool |->
     CASE v = "1.2.0" -> <<1, 2, 0>> [] v = "1.10.0" -> <<1, 10, 0>> [] v = "2.0.0" -> <<2, 0, 0>>
       [] v = "1.2.10" -> <<1, 2, 10>> [] v = "1.0" -> <<1, 0>> [] v = "1.0.0" -> <<1, 0, 0>>
       [] v = "1.0.0-rc" -> <<1, 0, 0>>]

\* Segment i of key v, a missing trailing segment counting as 0.
SegmentAt(v, i) == IF i <= Len(SegmentsOf[v]) THEN SegmentsOf[v][i] ELSE 0

\* a is greater than b position by position.
GreaterVersion(a, b) ==
  \E i \in 1..3 : /\ SegmentAt(a, i) > SegmentAt(b, i)
                  /\ \A j \in 1..(i - 1) : SegmentAt(a, j) = SegmentAt(b, j)

\* a and b compare equal.
EqualVersions(a, b) == \A i \in 1..3 : SegmentAt(a, i) = SegmentAt(b, i)

\* The position of key k in the list.
PositionIn(list, k) == CHOOSE i \in 1..Len(list) : list[i] = k

\* C12: allVersions holds every key of the versions map exactly once and
\* nothing else, no key is followed by a greater one, and the keys 1.2.0,
\* 1.10.0, 2.0.0, 1.2.10 come out as 2.0.0, 1.10.0, 1.2.10, 1.2.0.
C12_AllVersionsSortedPermutation ==
  \A c \in Calls :
    calls[c].pc = "resolved"
      => LET keys == calls[c].data.versionKeys
             all == calls[c].result.allVersions
         IN /\ Len(all) = Len(keys)
            /\ \A k \in KeySet(keys) : Cardinality({i \in 1..Len(all) : all[i] = k}) = 1
            /\ \A i \in 1..Len(all) : all[i] \in KeySet(keys)
            /\ \A i, j \in 1..Len(all) : i < j => ~GreaterVersion(all[j], all[i])
            /\ keys = <<"1.2.0", "1.10.0", "2.0.0", "1.2.10">>
                 => all = <<"2.0.0", "1.10.0", "1.2.10", "1.2.0">>

\* The example of the claim has been sorted.
C12_Witness ==
  \E c \in Calls :
    /\ calls[c].pc = "resolved"
    /\ calls[c].data.versionKeys = <<"1.2.0", "1.10.0", "2.0.0", "1.2.10">>
    /\ calls[c].result.allVersions = <<"2.0.0", "1.10.0", "1.2.10", "1.2.0">>

C16_VersionLevelThenRoot ==
  \A c \in Calls :
    calls[c].pc = "resolved"
      => LET record == calls[c].versionData
             root == calls[c].data
             result == calls[c].result.packageData
         IN /\ result.repository =
                 IF Get(record, "repository") # Undef THEN record.repository.url
                 ELSE IF Get(root, "repository") # Undef THEN root.repository.url
                 ELSE Undef
            /\ result.homepage =
                 IF Get(record, "homepage") # Undef THEN record.homepage
                 ELSE IF Get(root, "homepage") # Undef THEN root.homepage
                 ELSE Undef

\* Both levels carry a repository and the version's own is returned; only
\* the root carries a homepage and that one is returned.
C16_Witness ==
  \E c \in Calls :
    /\ calls[c].pc = "resolved"
    /\ calls[c].versionData.repository = Repository("git+https://github.com/acme/widget.git")
    /\ calls[c].data.repository = Repository("git://github.com/rootorg/widget.git")
    /\ calls[c].versionData.homepage = Undef
    /\ calls[c].result.packageData.repository = Str("git+https://github.com/acme/widget.git")
    /\ calls[c].result.packageData.homepage = Str("https://widget.example")

\* C17: a call whose document has no publish timestamp for the target
\* version, the document and the version record at hand, is not rejected,
\* and its result has no publishedDate.
C17_MissingTimestampNoFailure ==
  \A c \in Calls :
    (/\ HasDocument(c) /\ Truthy(calls[c].versionData)
     /\ calls[c].versionData.version.str \notin DOMAIN Get(calls[c].data, "time"))
      => /\ calls[c].pc # "rejected"
         /\ calls[c].pc = "resolved" => calls[c].result.packageData.publishedDate = Undef

\* ------------------------------------------------------- properties: App

\* C7: an error message is never displayed together with package data.
C7_NoErrorWithData == error # Null => packageData = Null

\* handleSearch runs with a blank input text and no name from the palette:
\* the select changes, or the palette's prompt is answered with blanks.
EmptyNameSearch ==
  /\ Trim(packageName) = ""
  /\ \/ \E v \in {"1.0.0", "2.0.0"} : HandleVersionChange(v)
     \/ \E pkg \in PromptAnswers : Trim(pkg) = "" /\ SearchPackageCommand(pkg)

\* The entries of a dependencies member, none when it is absent.
EntriesOf(deps) == IF Truthy(deps) THEN deps.entries ELSE <<>>

\* The edge the effect adds for one entry.
EdgeFor(data, entry, type) ==
  [from |-> data.name.str, to |-> entry.name, arrows |-> "to", dashes |-> (type = "devDep")]

\* The network instances not destroyed yet.
LiveNetworks == {i \in 1..Len(networks) : networks[i].live}

\* C23: whenever the effect of DependencyGraph has run with vis loaded for
\* the packageData shown, no add failed, the node ids are pairwise distinct
\* and are exactly the package's name and the names of dependencies and
\* devDependencies (a name in both, or the package's own, once), there is one
\* edge per entry of dependencies followed by one per entry of
\* devDependencies, each from the package's node to the entry's name; and in
\* every state at most one network is live, the one the pending cleanup will
\* destroy, and none is live while the component is unmounted.
C23_DistinctNodesOneLiveNetwork ==
  /\ ~nodes.threw
  /\ cleanupInstance # 0 =>
       LET data == graphPackage
           deps == EntriesOf(data.dependencies)
           devDeps == EntriesOf(data.devDependencies)
       IN /\ \A i, j \in 1..Len(nodes.items) : nodes.items[i].id = nodes.items[j].id => i = j
          /\ {nodes.items[i].id : i \in 1..Len(nodes.items)} =
               {data.name.str} \cup {deps[i].name : i \in 1..Len(deps)}
                               \cup {devDeps[i].name : i \in 1..Len(devDeps)}
          /\ nodes.items[1].id = data.name.str
          /\ edges.items = [i \in 1..Len(deps) |-> EdgeFor(data, deps[i], "dep")] \o
                            [i \in 1..Len(devDeps) |-> EdgeFor(data, devDeps[i], "devDep")]
  /\ Cardinality(LiveNetworks) <= 1
  /\ LiveNetworks = {cleanupInstance} \ {0}
  /\ graphPackage = Null => LiveNetworks = {}

\* A second network is live after the first was destroyed, on a package that
\* lists its own name and lists one name in both maps.
C23_Witness ==
  /\ Len(networks) >= 2 /\ ~networks[1].live /\ cleanupInstance = Len(networks)
  /\ graphPackage # Null
  /\ Truthy(graphPackage.dependencies) /\ Truthy(graphPackage.devDependencies)
  /\ \E i \in 1..Len(graphPackage.dependencies.entries) :
        graphPackage.dependencies.entries[i].name = graphPackage.name.str
  /\ \E i \in 1..Len(graphPackage.dependencies.entries) :
        \E j \in 1..Len(graphPackage.devDependencies.entries) :
          graphPackage.dependencies.entries[i].name = graphPackage.devDependencies.entries[j].name
  /\ Len(nodes.items) = 3 /\ Len(edges.items) = 4

\* C18: handleSearch with a blank name and no override issues no request,
\* sets the error 'Please enter a package name.', clears packageData,
\* securityAdvisories, availableVersions and selectedVersion, and leaves
\* loading as it was.
C18_EmptyNameOnlySetsError ==
  [][EmptyNameSearch
       => /\ calls' = calls /\ searches' = searches
          /\ error' = Str("Please enter a package name.")
          /\ packageData' = Null
          /\ securityAdvisories' = <<>>
          /\ availableVersions' = <<>>
          /\ selectedVersion' = Str("")
          /\ loading' = loading]_vars

\* The blank-name error is on display while an earlier search is still
\* loading, and beside no results.
C18_Witness ==
  /\ error = Str("Please enter a package name.")
  /\ loading
  /\ \E c \in Calls : calls[c].pc = "awaitDocument"
  /\ packageData = Null /\ availableVersions = <<>> /\ selectedVersion = Str("")

\* C20: a change of the selected version, a package being displayed, starts
\* a fetch of the displayed package's document with the chosen version.
C20_VersionChangeRefetchesDisplayed ==
  [][\A v \in {"1.0.0", "2.0.0"} :
       (packageData # Null /\ HandleVersionChange(v))
         => /\ Len(calls') = Len(calls) + 1
            /\ calls'[Len(calls')].packageName = packageData.name.str
            /\ calls'[Len(calls')].version = Str(v)
            /\ calls'[Len(calls')].requests = <<RegistryUrl(packageData.name.str)>>]_vars

\* ---------------------------------------------- properties: CommandPalette

\* C19: while the palette stays open, its effect having run since it opened,
\* the search term changes only by typing and the selected index only by an
\* arrow key or the mouse: no render resets them.
C19_KeptWhileOpen ==
  [][(effectIsOpen /\ commandPaletteOpen /\ commandPaletteOpen')
       => /\ searchTerm' = searchTerm \/ \E text \in SearchTerms : ChangeSearchTerm(text)
          /\ \/ selectedIndex' = selectedIndex
             \/ ArrowUp \/ ArrowDown
             \/ \E i \in 1..Len(Commands) : MouseEnter(i)]_vars

\* The command with the given id ran once: Search Package prompted and made
\* at most one handleSearch call, Clear Results cleared, Help changed nothing.
RanOnce(id) ==
  CASE id = "search-package" ->
         \/ UNCHANGED <<calls, searches, appVars>>
         \/ /\ Len(calls') <= Len(calls) + 1
            /\ \E pkg \in PromptAnswers : SearchPackageCommand(pkg)
    [] id = "clear-results" -> ClearResults
    [] id = "help" -> UNCHANGED <<calls, searches, appVars>>

InFlight(s) == searches[s].pc \in {"awaitFetch", "awaitAdvisories"}

\* C21: loading is true exactly while some search is in flight.
C21_LoadingWhileInFlight == loading <=> \E s \in 1..Len(searches) : InFlight(s)

\* What search s leaves on display when its fetch settles.
ShowsOutcomeOf(s) ==
  IF calls[searches[s].call].pc = "resolved"
  THEN /\ packageData = calls[searches[s].call].result.packageData
       /\ availableVersions = calls[searches[s].call].result.allVersions
       /\ selectedVersion = calls[searches[s].call].result.packageData.version
  ELSE error = calls[searches[s].call].error

\* C8: when the last outstanding fetch of several searches settles, the display
\* is that of the search started last.
C8_LastStartedWins ==
  [][(Len(searches) >= 2 /\ ~AllSettled /\ AllSettled' /\ Len(searches') = Len(searches))
       => ShowsOutcomeOf(Len(searches))']_vars

====
